---- MODULE Spec2Model ----
(***************************************************************************)
(* Model of src/hw5.py: class QuestionnaireAnalysis.                       *)
(*                                                                         *)
(* State: the loaded table self.data, a ghost copy of the table as it was  *)
(* last loaded by read_data (at construction, or by a later call of        *)
(* read_data), the last call with its returned value (or the exception it  *)
(* raised), and whether no, one or several calls were made.                *)
(* One action per public method.                                           *)
(*                                                                         *)
(* Numeric cells are exact rationals [num, den] with den > 0; the missing  *)
(* value (NaN, and pd.NA in the score column) is the cell with den = 0.    *)
(* Text cells are sequences of one-character strings.                      *)
(***************************************************************************)
EXTENDS Integers, Sequences, FiniteSets

VARIABLES data, loaded, op, arg, result, calls

vars == <<data, loaded, op, arg, result, calls>>

(* ------------------------------ bounds -------------------------------- *)
MaxRows == 2          \* rows of a loaded table
MaxEmailLen == 4      \* single-row tables: every email up to this length
MaxGrade == 2         \* single-row tables: every grade row over NaN and 1..MaxGrade
MaxNansArg == 5       \* maximal_nans_per_sub ranges over 0..MaxNansArg

(* ------------------------- numeric cells ------------------------------ *)
NaN == [num |-> 0, den |-> 0]

Abs(n) == IF n < 0 THEN -n ELSE n

RECURSIVE GCD(_, _)
GCD(a, b) == IF b = 0 THEN a ELSE GCD(b, a % b)

\* the rational n/d in lowest terms, d > 0
Rat(n, d) == LET g == GCD(Abs(n), d) IN [num |-> n \div g, den |-> d \div g]

Num(n) == [num |-> n, den |-> 1]

isna(x) == x.den = 0

notna(x) == ~isna(x)

RatAdd(x, y) == Rat(x.num * y.den + y.num * x.den, x.den * y.den)

\* x < y and x <= y on present cells
RatLt(x, y) == x.num * y.den < y.num * x.den

RatLe(x, y) == x.num * y.den <= y.num * x.den

(* ------------------------------ table --------------------------------- *)
QCols == <<"q1", "q2", "q3", "q4", "q5">>

QColSet == {QCols[k] : k \in 1..Len(QCols)}

\* one record of the JSON array; index is the label pandas gives the row
Row(i, a, e, q) ==
    [index |-> i, age |-> a, email |-> e,
     q1 |-> q[1], q2 |-> q[2], q3 |-> q[3], q4 |-> q[4], q5 |-> q[5]]

\* the value an operation returns, or the exception it raises
NoResult == [kind |-> "none", table |-> <<>>, arr |-> <<>>, hist |-> <<>>,
             bins |-> <<>>, error |-> ""]

Raise(e) == [NoResult EXCEPT !.kind = "error", !.error = e]

ReturnTable(t) == [NoResult EXCEPT !.kind = "table", !.table = t]

ReturnTableArr(t, a) == [NoResult EXCEPT !.kind = "table_arr", !.table = t, !.arr = a]

ReturnHist(h, b) == [NoResult EXCEPT !.kind = "hist", !.hist = h, !.bins = b]

(* ------------------- 1. show_age_distrib (lines 38-46) ---------------- *)
NumEdges == 11

\* edges spaced as by np.linspace(..., endpoint=False)
linspace_noendpoint(start, stop, num) ==
    [k \in 1..num |-> Rat(start * num + (k - 1) * (stop - start), num)]

\* np.linspace(start, stop, num): num evenly spaced edges, both ends included
linspace(start, stop, num) ==
    [k \in 1..num |-> Rat(start * (num - 1) + (k - 1) * (stop - start), num - 1)]

bins == linspace(0, 100, NumEdges)

\* number of ages strictly below edge e; NaN sorts last and is never counted
searchsorted_left(t, e) ==
    Cardinality({i \in 1..Len(t) : notna(t[i].age) /\ RatLt(t[i].age, e)})

\* the last edge searched with side "left" too: the last bin half-open
searchsorted_right_open(t, e) ==
    Cardinality({i \in 1..Len(t) : notna(t[i].age) /\ RatLt(t[i].age, e)})

\* number of ages below or equal to edge e
searchsorted_right(t, e) ==
    Cardinality({i \in 1..Len(t) : notna(t[i].age) /\ RatLe(t[i].age, e)})

\* numpy's cumulative histogram over explicit bin edges
\* (_search_sorted_inclusive: side "left" for every edge but the last,
\* side "right" for the last, which closes the last bin)
cum_n(t) ==
    [k \in 1..Len(bins) |->
        IF k < Len(bins) THEN searchsorted_left(t, bins[k])
                         ELSE searchsorted_right(t, bins[k])]

\* np.diff of the cumulative counts: one count per bin
hist(t) == LET c == cum_n(t) IN [k \in 1..(Len(bins) - 1) |-> c[k + 1] - c[k]]

show_age_distrib(t) == ReturnHist(hist(t), bins)

(* --------------- 2. remove_rows_without_mail (lines 58-70) ------------ *)
emails_length(row) == Len(row.email)

Positions(s, ch) == {i \in 1..Len(s) : s[i] = ch}

SetMin(S) == CHOOSE x \in S : \A y \in S : x <= y

SetMax(S) == CHOOSE x \in S : \A y \in S : x >= y

\* str.find / str.rfind: 0-based position of the first / last occurrence, or -1
str_find(s, ch) == IF Positions(s, ch) = {} THEN -1 ELSE SetMin(Positions(s, ch)) - 1

str_rfind(s, ch) == IF Positions(s, ch) = {} THEN -1 ELSE SetMax(Positions(s, ch)) - 1

find_first_dot(row) == str_find(row.email, ".")

find_last_dot(row) == str_rfind(row.email, ".")

find_first_at(row) == str_find(row.email, "@")

find_last_at(row) == str_rfind(row.email, "@")

cond1(row) ==
    /\ find_last_at(row) = find_first_at(row)
    /\ find_first_at(row) > 0
    /\ find_first_at(row) < emails_length(row)

cond2(row) == find_first_dot(row) > 0 /\ find_last_dot(row) < emails_length(row)

\* Python s[i]: legal for -len <= i < len, IndexError otherwise
index_in_range(s, i) == -Len(s) <= i /\ i < Len(s)

getitem(s, i) == IF i >= 0 THEN s[i + 1] ELSE s[Len(s) + i + 1]

\* email[index+1] of the loop at lines 66-67 raises for this row
cond3_raises(row) == ~index_in_range(row.email, find_first_at(row) + 1)

cond3(row) == getitem(row.email, find_first_at(row) + 1) /= "."

valid_email(row) == cond1(row) /\ cond2(row) /\ cond3(row)

\* reset_index(drop=True) left out: the rows keep their old labels
reset_index_kept(t) == t

\* reset_index(drop=True): fresh labels 0..len-1
reset_index(t) == [i \in 1..Len(t) |-> [t[i] EXCEPT !.index = i - 1]]

remove_rows_without_mail(t) ==
    IF \E i \in 1..Len(t) : cond3_raises(t[i])
    THEN Raise("IndexError")
    ELSE ReturnTable(reset_index(SelectSeq(t, valid_email)))

(* ------------------ 3. fill_na_with_mean (lines 85-91) ---------------- *)
BroadcastRows == 100

RECURSIVE SumPresent(_, _)
\* sum of the present cells among the first k question columns
SumPresent(row, k) ==
    IF k = 0 THEN Num(0)
    ELSE IF isna(row[QCols[k]]) THEN SumPresent(row, k - 1)
         ELSE RatAdd(SumPresent(row, k - 1), row[QCols[k]])

CountPresent(row) == Cardinality({c \in QColSet : notna(row[c])})

\* DataFrame.mean(1) on q1..q5: skips NaN; NaN when nothing is present
mean(row) ==
    IF CountPresent(row) = 0 THEN NaN
    ELSE Rat(SumPresent(row, Len(QCols)).num,
             SumPresent(row, Len(QCols)).den * CountPresent(row))

all_means_vector(t) == [i \in 1..Len(t) |-> mean(t[i])]

\* np.broadcast_to(v, (5, 100)) is legal when len(v) is 100 or 1
broadcastable(v) == Len(v) = BroadcastRows \/ Len(v) = 1

\* transpose of the broadcast: row label r (0-based) -> the five column values
all_means_matrix(v) ==
    [r \in 0..(BroadcastRows - 1) |->
        [k \in 1..Len(QCols) |-> IF Len(v) = 1 THEN v[1] ELSE v[r + 1]]]

\* pd.DataFrame(matrix, columns=q1..q5): labels 0..99, one entry per column
all_means_df(v) ==
    [r \in 0..(BroadcastRows - 1) |->
        [c \in QColSet |->
            all_means_matrix(v)[r][CHOOSE k \in 1..Len(QCols) : QCols[k] = c]]]

\* DataFrame.fillna(value=frame): a missing cell takes the frame's cell of
\* the same row label and column, when the frame has one
fillna(t, value) ==
    [i \in 1..Len(t) |->
        [c \in DOMAIN t[i] |->
            IF /\ t[i].index \in DOMAIN value
               /\ c \in DOMAIN value[t[i].index]
               /\ isna(t[i][c])
            THEN value[t[i].index][c]
            ELSE t[i][c]]]

arr_bool(row) == Cardinality({c \in QColSet : isna(row[c])}) > 0

RECURSIVE arange_masked(_, _)
\* np.arange(len(t))[arr_bool]: the 0-based positions of the flagged rows
arange_masked(t, n) ==
    IF n = 0 THEN <<>>
    ELSE IF arr_bool(t[n]) THEN Append(arange_masked(t, n - 1), n - 1)
         ELSE arange_masked(t, n - 1)

fill_na_with_mean(t) ==
    LET v == all_means_vector(t) IN
    IF ~broadcastable(v)
    THEN Raise("ValueError")
    ELSE ReturnTableArr(fillna(t, all_means_df(v)), arange_masked(t, Len(t)))

(* ------------------- 4. score_subjects (lines 113-120) ---------------- *)
UInt8Max == 255

sum_nan(row) == Cardinality({c \in QColSet : isna(row[c])})

\* the comparison written >= : a row with exactly m missing grades is voided
mask_nan_ge(row, m) == sum_nan(row) >= m

mask_nan(row, m) == sum_nan(row) > m

\* np.floor: NaN stays NaN
floor(x) == IF isna(x) THEN NaN ELSE Num(x.num \div x.den)

\* astype('UInt8') is a safe cast: it raises unless every present value fits
fits_UInt8(x) == isna(x) \/ (0 <= x.num /\ x.num <= UInt8Max)

score(t) == [i \in 1..Len(t) |-> floor(mean(t[i]))]

\* new_df = self.data.copy(); new_df["score"] = score
with_score(t, m) ==
    LET s == score(t) IN
    [i \in 1..Len(t) |->
        [c \in DOMAIN t[i] \cup {"score"} |->
            IF c = "score"
            THEN (IF mask_nan(t[i], m) THEN NaN ELSE s[i])
            ELSE t[i][c]]]

score_subjects(t, m) ==
    IF \E i \in 1..Len(t) : ~fits_UInt8(score(t)[i])
    THEN Raise("TypeError")
    ELSE ReturnTable(with_score(t, m))

(* ------------------------- loaded tables ------------------------------ *)
Chars == {"a", ".", "@"}

\* the emails named in the specification's examples, and short emails on
\* either side of each condition of the filter
ExampleEmails ==
    { <<"a", ".", "b", "@", "c", ".", "c", "o", "m">>,
      <<"a", "b", "@", ".", "c", "o", "m">>,
      <<"a", "@", "b", "@", "c", ".", "c", "o", "m">>,
      <<"@", "a", "b", "c", ".", "c", "o", "m">>,
      <<"a", "b", "c", ".", "c", "o", "m">>,
      <<"a", ".", "@", "a">>,
      <<"a", "@", "a", ".">>,
      <<"a", ".", "a", "@">>,
      <<"a", "@", "a", ".", "a">>,
      <<".", "a", "@", "a">>,
      <<"a", "@", "a">>,
      <<>> }

\* every text over Chars of length 0..MaxEmailLen
ShortEmails == UNION {[1..n -> Chars] : n \in 0..MaxEmailLen}

\* every row of grades over NaN and 1..MaxGrade
SmallGradeRows == [1..5 -> {NaN} \cup {Num(g) : g \in 1..MaxGrade}]

AgeCells ==
    {NaN, Num(-1), Num(0), Rat(19, 2), Num(10), Num(55), Num(99), Num(100), Num(101)}

\* a row of grades with the cells of the positions in `missing` left empty
Masked(q, missing) == [k \in 1..5 |-> IF k \in missing THEN NaN ELSE Num(q[k])]

\* every number of missing grades, at several positions
MissingSets ==
    { {}, {3}, {5}, {1, 2}, {4, 5}, {1, 2, 3}, {2, 3, 4, 5}, {1, 2, 3, 4, 5} }

GradeRows ==
    {Masked(<<2, 4, 5, 6, 8>>, missing) : missing \in MissingSets}
        \cup {Masked(<<3, 3, 3, 3, 3>>, {5}), Masked(<<3, 3, 3, 3, 3>>, {4, 5}),
              Masked(<<300, 300, 300, 300, 300>>, {}),
              Masked(<<300, 300, 300, 300, 300>>, {1, 2})}

DefaultAge == Num(55)

DefaultEmail == <<"a", ".", "b", "@", "c", ".", "c", "o", "m">>

DefaultGrades == Masked(<<2, 4, 5, 6, 8>>, {})

\* pd.read_json of an array of records: rows in file order, labels 0..n-1
read_data(n, ages, emails, grades) ==
    [i \in 1..n |-> Row(i - 1, ages[i], emails[i], grades[i])]

Defaults(n, x) == [i \in 1..n |-> x]

\* the tables read_data loads here: up to MaxRows rows varying in one
\* column over the example values, and single rows over every short email
\* and every small row of grades
Init ==
    /\ \/ \E n \in 1..MaxRows :
            \/ \E ages \in [1..n -> AgeCells] :
                  data = read_data(n, ages, Defaults(n, DefaultEmail),
                                   Defaults(n, DefaultGrades))
            \/ \E emails \in [1..n -> ExampleEmails] :
                  data = read_data(n, Defaults(n, DefaultAge), emails,
                                   Defaults(n, DefaultGrades))
            \/ \E grades \in [1..n -> GradeRows] :
                  data = read_data(n, Defaults(n, DefaultAge),
                                   Defaults(n, DefaultEmail), grades)
       \/ \E email \in ShortEmails :
            data = read_data(1, <<DefaultAge>>, <<email>>, <<DefaultGrades>>)
       \/ \E grades \in SmallGradeRows :
            data = read_data(1, <<DefaultAge>>, <<DefaultEmail>>, <<grades>>)
    /\ loaded = data
    /\ op = "none"
    /\ arg = 0
    /\ result = NoResult
    /\ calls = 0

(* ------------------------------ actions ------------------------------- *)
\* self.data after a call: no method assigns to self.data or writes into it
data_after_show_age_distrib(t) == t

data_after_remove_rows_without_mail(t) == t

data_after_fill_na_with_mean(t) == t

\* new_df bound to self.data itself: the score column lands in self.data
data_after_score_no_copy(t, m) ==
    IF score_subjects(t, m).kind = "table" THEN score_subjects(t, m).table ELSE t

data_after_score_subjects(t, m) == t

\* calls made so far: 0, 1, or 2 for two and more
Called(n) == IF n < 2 THEN n + 1 ELSE 2

\* what the file holds when read_data is called again after it was rewritten
RewrittenTables ==
    { read_data(1, <<Num(10)>>, << <<"a", "@", "a", ".">> >>, <<Masked(<<1, 1, 1, 1, 1>>, {2, 3, 4, 5})>>),
      read_data(2, <<NaN, Num(101)>>, << <<"a", ".", "a", "@">>, DefaultEmail >>,
                <<Masked(<<2, 4, 5, 6, 8>>, {3}), Masked(<<3, 3, 3, 3, 3>>, {4, 5})>>) }

\* read_data called after construction: self.data is replaced by what the
\* file holds then, the same table or a rewritten one; it returns None
ReadData ==
    \E t \in {loaded} \cup RewrittenTables :
        /\ op' = "read_data"
        /\ arg' = 0
        /\ result' = NoResult
        /\ data' = t
        /\ loaded' = t
        /\ calls' = Called(calls)

ShowAgeDistrib ==
    /\ op' = "show_age_distrib"
    /\ arg' = 0
    /\ result' = show_age_distrib(data)
    /\ data' = data_after_show_age_distrib(data)
    /\ calls' = Called(calls)
    /\ UNCHANGED loaded

RemoveRowsWithoutMail ==
    /\ op' = "remove_rows_without_mail"
    /\ arg' = 0
    /\ result' = remove_rows_without_mail(data)
    /\ data' = data_after_remove_rows_without_mail(data)
    /\ calls' = Called(calls)
    /\ UNCHANGED loaded

FillNaWithMean ==
    /\ op' = "fill_na_with_mean"
    /\ arg' = 0
    /\ result' = fill_na_with_mean(data)
    /\ data' = data_after_fill_na_with_mean(data)
    /\ calls' = Called(calls)
    /\ UNCHANGED loaded

ScoreSubjects ==
    \E m \in 0..MaxNansArg :
        /\ op' = "score_subjects"
        /\ arg' = m
        /\ result' = score_subjects(data, m)
        /\ data' = data_after_score_subjects(data, m)
        /\ calls' = Called(calls)
    /\ UNCHANGED loaded

Next ==
    \/ ReadData
    \/ ShowAgeDistrib
    \/ RemoveRowsWithoutMail
    \/ FillNaWithMean
    \/ ScoreSubjects

Spec == Init /\ [][Next]_vars

(* ============================== claims ================================ *)
\* Helpers of the claims: stated on the loaded table, independently of the
\* operators above.
Missing(row) == {c \in QColSet : row[c].den = 0}

Present(row) == QColSet \ Missing(row)

RECURSIVE GradeSum(_, _)
\* sum of the present integer grades of the columns in cols
GradeSum(row, cols) ==
    IF cols = {} THEN 0
    ELSE LET c == CHOOSE x \in cols : TRUE
         IN row[c].num + GradeSum(row, cols \ {c})

\* x is the floor of the mean of the present grades of row
IsFloorOfMean(x, row) ==
    /\ x.den = 1
    /\ x.num * Cardinality(Present(row)) <= GradeSum(row, Present(row))
    /\ GradeSum(row, Present(row)) < (x.num + 1) * Cardinality(Present(row))

\* x is the mean of the present grades of row (NaN when none is present)
IsMeanOf(x, row) ==
    IF Present(row) = {} THEN x.den = 0
    ELSE x.den > 0 /\ x.num * Cardinality(Present(row)) = GradeSum(row, Present(row)) * x.den

RECURSIVE SeqSum(_)
SeqSum(s) == IF s = <<>> THEN 0 ELSE Head(s) + SeqSum(Tail(s))

\* number of rows whose age a is present and satisfies lo <= a < hi (or <= hi)
AgesIn(t, lo, hi, closed) ==
    Cardinality({i \in 1..Len(t) :
        /\ t[i].age.den > 0
        /\ lo * t[i].age.den <= t[i].age.num
        /\ IF closed THEN t[i].age.num <= hi * t[i].age.den
                     ELSE t[i].age.num < hi * t[i].age.den})

\* the rule of the specification, section 4.3
ClaimedValid(row) ==
    LET e == row.email
        ats == {i \in 1..Len(e) : e[i] = "@"}
        dots == {i \in 1..Len(e) : e[i] = "."}
    IN /\ Cardinality(ats) = 1
       /\ \A i \in ats : 1 < i /\ i < Len(e)
       /\ dots /= {}
       /\ \A i \in dots : 1 < i /\ i < Len(e)
       /\ \A i \in ats : e[i + 1] /= "."

SameRowsAs(t, kept) ==
    /\ Len(t) = Len(kept)
    /\ \A i \in 1..Len(t) : t[i] = [kept[i] EXCEPT !.index = i - 1]

\* C1: remove_rows_without_mail keeps exactly the rows whose email meets the
\* three rules of the specification ('@' once and neither first nor last,
\* '.' present and neither first nor last, no '.' right after the '@').
C1_KeepsExactlyClaimedValid ==
    (op = "remove_rows_without_mail" /\ result.kind = "table")
        => SameRowsAs(result.table, SelectSeq(loaded, ClaimedValid))

\* C10: remove_rows_without_mail returns a table, and raises nothing, for
\* every table of text emails.
C10_NeverRaises ==
    op = "remove_rows_without_mail" => result.kind = "table"

\* C2 (as stated): the score is missing exactly when the number of missing
\* grades exceeds maximal_nans_per_sub, and is the floor of the mean of the
\* present grades otherwise.
C2_MissingExactlyWhenOverThreshold ==
    (op = "score_subjects" /\ result.kind = "table") =>
        \A i \in 1..Len(loaded) :
            /\ result.table[i].score.den = 0 <=> Cardinality(Missing(loaded[i])) > arg
            /\ Cardinality(Missing(loaded[i])) <= arg
                   => IsFloorOfMean(result.table[i].score, loaded[i])

\* every row with a present grade has the floor of its mean within UInt8
AllScoresFit(t) ==
    \A i \in 1..Len(t) :
        Present(t[i]) /= {} =>
            /\ 0 <= GradeSum(t[i], Present(t[i]))
            /\ GradeSum(t[i], Present(t[i])) < (UInt8Max + 1) * Cardinality(Present(t[i]))

\* C2 (amended): score_subjects returns when the floored mean of every row
\* fits UInt8 (and raises TypeError otherwise); the score is then missing
\* exactly when the number of missing grades exceeds maximal_nans_per_sub or
\* all five grades are missing, and is the floor of the mean of the present
\* grades in every other row.
C2_MissingWhenOverThresholdOrEmpty ==
    op = "score_subjects" =>
        /\ result.kind = "table" <=> AllScoresFit(loaded)
        /\ result.kind /= "table" => result = Raise("TypeError")
        /\ result.kind = "table" =>
            /\ Len(result.table) = Len(loaded)
            /\ \A i \in 1..Len(loaded) :
                /\ result.table[i].score.den = 0
                     <=> (\/ Cardinality(Missing(loaded[i])) > arg
                          \/ Present(loaded[i]) = {})
                /\ result.table[i].score.den /= 0
                     => IsFloorOfMean(result.table[i].score, loaded[i])

\* a call with threshold 5 scored a row with all grades missing (score
\* missing although 5 does not exceed 5) and a row with some grades present
C2_Witness ==
    /\ op = "score_subjects" /\ arg = 5 /\ result.kind = "table"
    /\ \E i \in 1..Len(loaded) :
          Present(loaded[i]) = {} /\ result.table[i].score.den = 0
    /\ \E i \in 1..Len(loaded) :
          /\ Cardinality(Missing(loaded[i])) \in 1..4
          /\ result.table[i].score.den = 1
          /\ ~IsMeanOf(result.table[i].score, loaded[i])

\* the cell of column c in the imputed row is what the claim says it is
ImputedCell(new, old, c) ==
    IF c \in Missing(old) THEN IsMeanOf(new[c], old) ELSE new[c] = old[c]

\* C3: fill_na_with_mean returns the loaded table with each missing q1..q5
\* cell replaced by the mean of the present q1..q5 cells of its row, every
\* other cell unchanged.
C3_ReturnsImputedTable ==
    op = "fill_na_with_mean" =>
        /\ result.kind = "table_arr"
        /\ Len(result.table) = Len(loaded)
        /\ \A i \in 1..Len(loaded) :
              /\ DOMAIN result.table[i] = DOMAIN loaded[i]
              /\ \A c \in DOMAIN loaded[i] : ImputedCell(result.table[i], loaded[i], c)

\* C4: the second output of fill_na_with_mean lists, ascending and without
\* duplicates, the 0-based positions of exactly the rows with a missing grade.
C4_ReturnsModifiedPositions ==
    op = "fill_na_with_mean" =>
        /\ result.kind = "table_arr"
        /\ \A k \in 1..(Len(result.arr) - 1) : result.arr[k] < result.arr[k + 1]
        /\ {result.arr[k] : k \in 1..Len(result.arr)}
              = {i - 1 : i \in {j \in 1..Len(loaded) : Missing(loaded[j]) /= {}}}

\* C9: fill_na_with_mean completes for a table of any number of rows and
\* returns a table of that many rows with the list of modified positions.
C9_CompletesForAnyRowCount ==
    op = "fill_na_with_mean" =>
        /\ result.kind /= "error"
        /\ Len(result.table) = Len(loaded)

\* C5: show_age_distrib returns the 11 edges 0,10,...,100 and 10 counts:
\* count i (0 <= i <= 8) is the number of ages in [10i, 10(i+1)), count 9 the
\* number of ages in [90, 100]; a missing age is counted nowhere.
C5_HistogramCounts ==
    op = "show_age_distrib" =>
        /\ result.kind = "hist"
        /\ result.bins = [k \in 1..11 |-> [num |-> 10 * (k - 1), den |-> 1]]
        /\ Len(result.hist) = 10
        /\ \A i \in 0..8 : result.hist[i + 1] = AgesIn(loaded, 10 * i, 10 * (i + 1), FALSE)
        /\ result.hist[10] = AgesIn(loaded, 90, 100, TRUE)

\* a histogram of a table with a missing age, an age of exactly 100 (counted
\* in the last bin) and the rest of the last bin empty
C5_Witness ==
    /\ op = "show_age_distrib" /\ result.kind = "hist"
    /\ \E i \in 1..Len(loaded) : loaded[i].age.den = 0
    /\ \E i \in 1..Len(loaded) : loaded[i].age = [num |-> 100, den |-> 1]
    /\ result.hist[10] = 1
    /\ SeqSum(result.hist) = 1

\* C6 (as stated): the bucket counts add up to the number of non-missing ages.
C6_SumIsNonMissingAges ==
    (op = "show_age_distrib" /\ result.kind = "hist") =>
        SeqSum(result.hist) = Cardinality({i \in 1..Len(loaded) : loaded[i].age.den > 0})

\* C6 (amended): the bucket counts add up to the number of non-missing ages
\* that lie within [0, 100].
C6_SumIsAgesWithinRange ==
    (op = "show_age_distrib" /\ result.kind = "hist") =>
        SeqSum(result.hist) = AgesIn(loaded, 0, 100, TRUE)

\* a histogram of a table holding an age outside [0, 100] and an age of 100
C6_Witness ==
    /\ op = "show_age_distrib" /\ result.kind = "hist"
    /\ \E i \in 1..Len(loaded) :
          loaded[i].age.den > 0 /\ (loaded[i].age.num < 0 \/ loaded[i].age.num > 100 * loaded[i].age.den)
    /\ \E i \in 1..Len(loaded) : loaded[i].age = [num |-> 100, den |-> 1]
    /\ SeqSum(result.hist) = 1

\* what a call returns as the first call on the freshly loaded table
FirstCallResult(name, m) ==
    CASE name = "read_data" -> NoResult
      [] name = "show_age_distrib" -> show_age_distrib(loaded)
      [] name = "remove_rows_without_mail" -> remove_rows_without_mail(loaded)
      [] name = "fill_na_with_mean" -> fill_na_with_mean(loaded)
      [] name = "score_subjects" -> score_subjects(loaded, m)
      [] OTHER -> NoResult

\* C7: after any sequence of calls of the four operations self.data equals
\* the table as loaded (at construction, when read_data was not called again;
\* no cell changed, no score column added), and the last call returned what
\* it returns as a first call on the freshly loaded table.
C7_LoadedTableNeverChanges ==
    /\ data = loaded
    /\ \A i \in 1..Len(data) : "score" \notin DOMAIN data[i]
    /\ result = FirstCallResult(op, arg)

\* a call, made after an earlier call, that returned a table differing from
\* the loaded one: a score column was added, or a missing grade was imputed
C7_Witness ==
    /\ calls = 2
    /\ op \in {"score_subjects", "fill_na_with_mean"}
    /\ result.kind \in {"table", "table_arr"}
    /\ result.table /= loaded
    /\ \E i \in 1..Len(loaded) : Missing(loaded[i]) /= {}

\* C8: filtering the table remove_rows_without_mail returned removes no row:
\* it yields the same rows, in the same order, labelled 0..len-1 as before.
C8_FilterIdempotent ==
    (op = "remove_rows_without_mail" /\ result.kind = "table") =>
        /\ remove_rows_without_mail(result.table) = result
        /\ \A i \in 1..Len(result.table) : result.table[i].index = i - 1

\* the filter removed the first row and kept the second, relabelled 0
C8_Witness ==
    /\ op = "remove_rows_without_mail" /\ result.kind = "table"
    /\ Len(loaded) = 2 /\ Len(result.table) = 1
    /\ result.table[1].email = loaded[2].email
    /\ loaded[1].email /= loaded[2].email
    /\ result.table[1].index = 0

====
